---- MODULE Spec2Model ----
(***************************************************************************)
(* Model of src/vs/base/node/zip.ts: extract / extractZip / extractEntry.  *)
(*                                                                         *)
(* One extract call is modelled.  The archive handle (yauzl ZipFile) is    *)
(* the environment: it delivers entry events, then close, or error.  Every *)
(* operation the entry handler schedules (mkdirp of a directory record, a  *)
(* throttled file-write task) is a record of `ops`, in scheduling order.   *)
(* Strings are sequences of one-character strings.                         *)
(***************************************************************************)
EXTENDS Integers, Sequences, FiniteSets

VARIABLES
    overwrite,      \* options.overwrite
    sourcePath,     \* options.sourcePath (<<>>: absent or empty)
    wide,           \* which vocabulary the archive's entry names come from
    budget,         \* entries the archive handle may still emit
    phase,          \* "idle" | "opening" | "deleting" | "extracting": position in extract()
    rimraf,         \* rimraf(targetPath): "none" | "pending" | "done" | "failed" | "cancelled"
    zip,            \* the archive handle: [open, errored, closed]
    isCanceled,     \* extractZip's isCanceled
    last,           \* extractZip's last: 0 (TPromise.wrap(null)) or an index of ops
    ops,            \* the operations scheduled so far
    queue,          \* the throttler's FIFO of not-yet-started tasks (indices of ops)
    running,        \* the throttler's "currently running" flag
    joinOp,         \* the operation close subscribed to (last.then(c, e)), -1 before close
    result,         \* the returned future: "pending" | "completed" | "failed" | "cancelled"
    error,          \* the error the returned future failed with
    via,            \* history: the path that settled the returned future
    cancelRequested,\* history: the caller has called cancel()
    lastEntry,      \* history: the most recent entry event and what the handler did
    startOrder,     \* history: file-write tasks in the order their bodies started
    \* read(zipPath, filePath) and buffer(zipPath, filePath)
    filePath,       \* the entry name asked for
    rphase,         \* "idle" | "opening" | "scanning" | "unopened": position in read()
    rzip,           \* the archive handle of read(): [errored, closed]
    emitted,        \* history: the names of the entries the handle has emitted
    opens,          \* indices of emitted whose openReadStream callback is pending
    rresult,        \* the future of read(): "pending" | "resolved" | "failed"
    rvalue,         \* the index in emitted of the entry whose stream it resolved with
    rerror,         \* the error it failed with
    sstate,         \* the matched stream: "none" | "flowing" | "ended" | "errored"
    sent,           \* history: the bytes the stream has emitted, in order
    buffers,        \* buffer()'s buffers: the chunks pushed so far
    bresult,        \* the future of buffer(): "pending" | "resolved" | "failed"
    bvalue,         \* the bytes it resolved with
    berror,         \* the error it failed with
    \* modeFromEntry(entry)
    attrWord,       \* entry.externalFileAttributes, an unsigned 32-bit word [hi, lo]
    mode            \* the mode computed, -1 before

extractVars == <<overwrite, sourcePath, wide, budget, phase, rimraf, zip, isCanceled, last, ops,
                 queue, running, joinOp, result, error, via, cancelRequested, lastEntry,
                 startOrder>>

readVars == <<filePath, rphase, rzip, emitted, opens, rresult, rvalue, rerror, sstate,
              sent, buffers, bresult, bvalue, berror>>

modeVars == <<attrWord, mode>>

vars == <<extractVars, readVars, modeVars>>

(***************************************************************************)
(* Bounds.                                                                 *)
(***************************************************************************)
MaxEntries == 3
MaxNameLen == 2
WideEntries == 1

Alphabet == {"a", "/", "."}

RECURSIVE StringsOfLen(_)
StringsOfLen(n) ==
    IF n = 0 THEN {<<>>}
    ELSE {Append(s, c) : s \in StringsOfLen(n - 1), c \in Alphabet}

Strings == UNION {StringsOfLen(n) : n \in 0..MaxNameLen}

\* The archives explored: up to MaxEntries entries over a small vocabulary
\* (a file, a directory, a file and a directory below "a/"), or up to
\* WideEntries entries with any name over Alphabet.
NarrowNames == {<<"a">>, <<".", "/">>, <<"a", "/">>, <<"a", "/", "a">>}
NarrowSourcePaths == {<<>>, <<"a", "/">>}
EntryNames == IF wide THEN Strings \ {<<>>} ELSE NarrowNames

(***************************************************************************)
(* Errors.  A raw error is known by its message; an ExtractError keeps the *)
(* message of the error it wraps as its cause.                             *)
(***************************************************************************)
NoError == [class |-> "none", type |-> "none", message |-> <<>>, cause |-> <<>>]

RawError(m) == [class |-> "Error", type |-> "none", message |-> <<m>>, cause |-> <<>>]

ExtractError(type, cause) ==
    [class |-> "ExtractError", type |-> type,
     message |-> IF type = "CorruptZip" THEN <<"Corrupt ZIP: ">> \o cause.message
                 ELSE cause.message,
     cause |-> cause.message]

\* /end of central directory record signature not found/.test(err.message);
\* "EOCD" stands for a message that holds that text.
IsEndOfCentralDirectoryError(err) == \E k \in 1..Len(err.message) : err.message[k] = "EOCD"

\* Mutant: the classifier's default is the other kind of ExtractErrorType.
toExtractErrorUndefined(err) ==
    ExtractError(IF IsEndOfCentralDirectoryError(err) THEN "CorruptZip" ELSE "Undefined",
                 err)

toExtractError(err) ==
    LET type == "CorruptZip"
    IN  ExtractError(IF IsEndOfCentralDirectoryError(err) THEN "CorruptZip" ELSE type,
                     err)

(***************************************************************************)
(* Entry Filter: sourcePathRegex = new RegExp(sourcePath ? `^${sourcePath}`*)
(* : '').  The source path is interpolated unescaped, so over Alphabet the *)
(* character "." of the pattern matches any character of the name; "a" and *)
(* "/" match themselves.                                                   *)
(***************************************************************************)
PatternCharMatches(p, c) == p = "." \/ p = c

\* sourcePathRegex.test(name): the pattern matches at the start of the name.
RegexTest(pat, name) ==
    /\ Len(pat) <= Len(name)
    /\ \A k \in 1..Len(pat) : PatternCharMatches(pat[k], name[k])

\* name.replace(sourcePathRegex, ''): the matched text, if any, is removed.
RegexStrip(pat, name) ==
    IF RegexTest(pat, name) THEN SubSeq(name, Len(pat) + 1, Len(name)) ELSE name

InScope(name) == RegexTest(sourcePath, name)

StripSource(name) == RegexStrip(sourcePath, name)

\* /\/$/.test(fileName)
IsDirectoryName(fileName) == Len(fileName) > 0 /\ fileName[Len(fileName)] = "/"

(***************************************************************************)
(* Scheduled operations.  A mkdirp is "running" from the moment it is      *)
(* scheduled.  A file-write task is "queued" in the throttler, then        *)
(* "started" (its body runs: awaits the read stream, creates the parent    *)
(* directory), then "writing" (the write sink is open and piped into).     *)
(* Both end "ok", "failed" or "cancelled"; a queued task that the          *)
(* throttler's cancellation removes is "dropped".                          *)
(***************************************************************************)
MkdirpOp == [kind |-> "mkdirp", st |-> "running", sink |-> "none", err |-> NoError]

WriteOp(st) == [kind |-> "write", st |-> st, sink |-> "none", err |-> NoError]

Settled == {"ok", "failed", "cancelled", "dropped"}

Executing == {"started", "writing"}

\* The operation `last` or `joinOp` refers to has settled; 0 is TPromise.wrap(null).
IsSettled(o, i) == i = 0 \/ o[i].st \in Settled

IsOk(o, i) == i = 0 \/ o[i].st = "ok"

(***************************************************************************)
(* Write Throttler (SimpleThrottler of vs/base/common/async).              *)
(***************************************************************************)
\* queue(task): started at once when idle, appended to the FIFO when busy.
ThrottlerQueue(i) ==
    IF running
    THEN [st |-> "queued", queue |-> Append(queue, i), running |-> TRUE]
    ELSE [st |-> "started", queue |-> queue, running |-> TRUE]

\* On the running task's completion the next queued task is dequeued and
\* started; the flag is cleared when the queue is empty.  `o` is ops with the
\* completed task already settled.
ThrottlerNext(o) ==
    IF queue = <<>>
    THEN [ops |-> o, queue |-> <<>>, running |-> FALSE, started |-> <<>>]
    ELSE [ops |-> [o EXCEPT ![Head(queue)].st = "started"], queue |-> Tail(queue),
          running |-> TRUE, started |-> <<Head(queue)>>]

\* Cancelling a throttled future that is still pending: the running body is
\* cancelled (extractEntry's cancel handler closes an opened sink) and no
\* queued task is ever started.
ThrottlerCancel(o) ==
    [k \in 1..Len(o) |->
        IF o[k].kind = "write" /\ o[k].st \in Executing
        THEN [o[k] EXCEPT !.st = "cancelled",
                          !.sink = IF o[k].sink = "open" THEN "closed" ELSE o[k].sink]
        ELSE IF o[k].kind = "write" /\ o[k].st = "queued"
        THEN [o[k] EXCEPT !.st = "dropped"]
        ELSE o[k]]

(***************************************************************************)
(* extractZip: the entry handler (zipfile.on('entry', ...)).               *)
(***************************************************************************)
\* Mutant: the handler without its isCanceled check.
EntrySuppressedNever == FALSE

\* if (isCanceled) { return; }
EntrySuppressed == isCanceled

\* Mutant: the task body is called at once instead of being queued.
ScheduleWriteUnthrottled(i) == [st |-> "started", queue |-> queue, running |-> running]

\* Mutant: a task scheduled while the throttler is busy jumps the queue.
ScheduleWriteFirst(i) ==
    IF running
    THEN [st |-> "queued", queue |-> <<i>> \o queue, running |-> TRUE]
    ELSE [st |-> "started", queue |-> queue, running |-> TRUE]

\* last = throttler.queue(() => stream.then(stream => extractEntry(...)))
ScheduleWrite(i) == ThrottlerQueue(i)

NoteEntry(name, disp, fileName) ==
    lastEntry' = [name |-> name, disp |-> disp, fileName |-> fileName]

OnEntry(name) ==
    IF EntrySuppressed
    THEN /\ NoteEntry(name, "suppressed", <<>>)
         /\ UNCHANGED <<last, ops, queue, running, startOrder>>
    ELSE IF ~InScope(name)
    THEN /\ NoteEntry(name, "excluded", <<>>)
         /\ UNCHANGED <<last, ops, queue, running, startOrder>>
    ELSE LET fileName == StripSource(name)
             i == Len(ops) + 1
         IN  IF IsDirectoryName(fileName)
             THEN /\ ops' = Append(ops, MkdirpOp)
                  /\ last' = i
                  /\ NoteEntry(name, "dir", fileName)
                  /\ UNCHANGED <<queue, running, startOrder>>
             ELSE LET t == ScheduleWrite(i)
                  IN  /\ ops' = Append(ops, WriteOp(t.st))
                      /\ queue' = t.queue
                      /\ running' = t.running
                      /\ startOrder' = IF t.st = "started" THEN Append(startOrder, i)
                                       ELSE startOrder
                      /\ last' = i
                      /\ NoteEntry(name, "file", fileName)

\* The archive handle emits an entry.
Entry ==
    /\ phase = "extracting"
    /\ ~zip.closed
    /\ budget > 0
    /\ budget' = budget - 1
    /\ \E name \in EntryNames : OnEntry(name)
    /\ UNCHANGED <<readVars, modeVars, rimraf, overwrite, sourcePath, wide, phase, zip, isCanceled, joinOp,
                   result, error, via, cancelRequested>>

(***************************************************************************)
(* extractZip: settling the returned future.  The promise built at line 93 *)
(* settles once; every failure of it passes through                        *)
(* .then(null, err => TPromise.wrapError(toExtractError(err))).            *)
(***************************************************************************)
Outer(r) == result' = r.result /\ error' = r.error /\ via' = r.via

OuterUnchanged == [result |-> result, error |-> error, via |-> via]

\* Mutant: e(err) overrides the outcome of a future that has settled.
OuterFailAlways(err, how) ==
    [result |-> "failed", error |-> toExtractError(err), via |-> how]

\* e(err) on the promise of line 93, seen through the handler of line 125.
OuterFail(err, how) ==
    IF result = "pending"
    THEN [result |-> "failed", error |-> toExtractError(err), via |-> how]
    ELSE OuterUnchanged

\* Mutant: close settles the future without waiting for `last`.
JoinReadyAtClose(o, j) == TRUE

\* last.then(c, e): the callbacks run once the operation has settled.
JoinReady(o, j) == IsSettled(o, j)

\* zipfile.once('close', () => last.then(c, e)), for the operation j that
\* `last` referred to when close was emitted; o is the operations' new state.
AfterJoin(o, j, closed) ==
    IF result = "pending" /\ closed /\ JoinReady(o, j)
    THEN IF IsOk(o, j)
         THEN [result |-> "completed", error |-> NoError, via |-> "join"]
         ELSE OuterFail(o[j].err, "join")
    ELSE OuterUnchanged

\* The archive handle emits close.
ZipClose ==
    /\ phase = "extracting"
    /\ ~zip.closed
    /\ zip' = [zip EXCEPT !.closed = TRUE, !.open = FALSE]
    /\ joinOp' = last
    /\ Outer(AfterJoin(ops, last, TRUE))
    /\ UNCHANGED <<readVars, modeVars, rimraf, overwrite, sourcePath, wide, budget, phase, isCanceled, last, ops,
                   queue, running, cancelRequested, lastEntry, startOrder>>

\* The archive handle emits error: zipfile.once('error', e).
ZipError ==
    /\ phase = "extracting"
    /\ ~zip.closed
    /\ ~zip.errored
    /\ zip' = [zip EXCEPT !.errored = TRUE, !.open = FALSE]
    /\ Outer(OuterFail(RawError("EZIP"), "error"))
    /\ UNCHANGED <<readVars, modeVars, rimraf, overwrite, sourcePath, wide, budget, phase, isCanceled, last, ops,
                   queue, running, joinOp, cancelRequested, lastEntry, startOrder>>

(***************************************************************************)
(* Directory creation scheduled by the entry handler settles.              *)
(***************************************************************************)
MkdirpSettle ==
    \E i \in 1..Len(ops), okay \in BOOLEAN :
        /\ ops[i].kind = "mkdirp"
        /\ ops[i].st = "running"
        /\ LET o == [ops EXCEPT ![i].st = IF okay THEN "ok" ELSE "failed",
                                ![i].err = IF okay THEN NoError ELSE RawError("EFS")]
           IN  /\ ops' = o
               /\ Outer(AfterJoin(o, joinOp, zip.closed))
        /\ UNCHANGED <<readVars, modeVars, rimraf, overwrite, sourcePath, wide, budget, phase, zip, isCanceled,
                       last, queue, running, joinOp, cancelRequested, lastEntry,
                       startOrder>>

(***************************************************************************)
(* extractEntry, run as the body of a throttled task.                      *)
(***************************************************************************)
\* The running task settles: the throttler starts the next queued task and a
\* pending last.then(c, e) of the close handler is notified.
WriteTaskEnd(i, st, sink, err) ==
    LET o == [ops EXCEPT ![i].st = st, ![i].sink = sink, ![i].err = err]
        t == ThrottlerNext(o)
    IN  /\ ops' = t.ops
        /\ queue' = t.queue
        /\ running' = t.running
        /\ startOrder' = startOrder \o t.started
        /\ Outer(AfterJoin(t.ops, joinOp, zip.closed))
        /\ UNCHANGED <<readVars, modeVars, rimraf, overwrite, sourcePath, wide, budget, phase, zip, isCanceled,
                       last, joinOp, cancelRequested, lastEntry>>

\* stream resolved and mkdirp(targetDirName) succeeded: createWriteStream, pipe.
OpenSink ==
    \E i \in 1..Len(ops) :
        /\ ops[i].kind = "write"
        /\ ops[i].st = "started"
        /\ ops' = [ops EXCEPT ![i].st = "writing", ![i].sink = "open"]
        /\ UNCHANGED <<readVars, modeVars, rimraf, overwrite, sourcePath, wide, budget, phase, zip, isCanceled,
                       last, queue, running, joinOp, result, error, via,
                       cancelRequested, lastEntry, startOrder>>

\* The read stream could not be opened, or mkdirp(targetDirName) failed: the
\* task fails before any sink exists.
FailBeforeSink ==
    \E i \in 1..Len(ops), m \in {"EZIP", "EFS"} :
        /\ ops[i].kind = "write"
        /\ ops[i].st = "started"
        /\ WriteTaskEnd(i, "failed", "none", RawError(m))

\* istream.once('close', () => c(null))
SinkClose ==
    \E i \in 1..Len(ops) :
        /\ ops[i].kind = "write"
        /\ ops[i].st = "writing"
        /\ WriteTaskEnd(i, "ok", "closed", NoError)

\* istream.once('error', e): the failed write stream destroys itself.
SinkError ==
    \E i \in 1..Len(ops) :
        /\ ops[i].kind = "write"
        /\ ops[i].st = "writing"
        /\ WriteTaskEnd(i, "failed", "closed", RawError("EFS"))

\* stream.once('error', e): the promise fails; nothing closes the sink.
SourceError ==
    \E i \in 1..Len(ops) :
        /\ ops[i].kind = "write"
        /\ ops[i].st = "writing"
        /\ WriteTaskEnd(i, "failed", "open", RawError("EZIP"))

(***************************************************************************)
(* Cancellation of the returned future.                                    *)
(***************************************************************************)
LastPending == last # 0 /\ ~IsSettled(ops, last)

\* last.cancel()
CancelLast(o) ==
    IF ~LastPending THEN o
    ELSE IF o[last].kind = "mkdirp"
    THEN [o EXCEPT ![last].st = "cancelled", ![last].err = RawError("Canceled")]
    ELSE ThrottlerCancel(o)

\* extractZip's cancel handler: isCanceled = true; last.cancel(); zipfile.close()
OnCancel ==
    /\ isCanceled' = TRUE
    /\ ops' = CancelLast(ops)
    /\ queue' = IF LastPending /\ ops[last].kind = "write" THEN <<>> ELSE queue
    /\ running' = IF LastPending /\ ops[last].kind = "write" THEN FALSE ELSE running
    /\ zip' = [zip EXCEPT !.open = FALSE]

\* Mutant: cancel() reaches the cancel handler of a settled future too.
CancelReachesAlways == TRUE

\* TPromise.cancel(): a future that has settled ignores it.
CancelReaches == result = "pending"

\* The caller cancels the future extract returned.  A settled future ignores
\* it; before extractZip has run there is no cancel handler to call.
Cancel ==
    /\ ~cancelRequested
    /\ cancelRequested' = TRUE
    /\ IF CancelReaches
       THEN /\ result' = "cancelled"
            /\ error' = RawError("Canceled")
            /\ via' = "cancel"
            /\ IF phase = "extracting"
               THEN OnCancel
               ELSE UNCHANGED <<isCanceled, ops, queue, running, zip>>
       ELSE UNCHANGED <<result, error, via, isCanceled, ops, queue, running, zip>>
    /\ rimraf' = IF CancelReaches /\ phase = "deleting" THEN "cancelled" ELSE rimraf
    /\ UNCHANGED <<readVars, modeVars, overwrite, sourcePath, wide, budget, phase, last,
                   joinOp, lastEntry, startOrder>>

(***************************************************************************)
(* extract: openZip, the optional rimraf(targetPath), then extractZip.     *)
(***************************************************************************)
\* Mutant: rimraf(targetPath) is started but extractZip does not wait for it.
OpenOkWithoutWaiting ==
    /\ phase = "opening"
    /\ result = "pending"
    /\ zip' = [zip EXCEPT !.open = TRUE]
    /\ phase' = "extracting"
    /\ rimraf' = IF overwrite THEN "pending" ELSE "none"
    /\ UNCHANGED <<readVars, modeVars, overwrite, sourcePath, wide, budget, isCanceled,
                   last, ops, queue, running, joinOp, result, error, via,
                   cancelRequested, lastEntry, startOrder>>

\* openZip resolved: if (options.overwrite) rimraf(targetPath) comes first,
\* otherwise extractZip runs and subscribes to the handle.
OpenOk ==
    /\ phase = "opening"
    /\ result = "pending"
    /\ zip' = [zip EXCEPT !.open = TRUE]
    /\ phase' = IF overwrite THEN "deleting" ELSE "extracting"
    /\ rimraf' = IF overwrite THEN "pending" ELSE "none"
    /\ UNCHANGED <<readVars, modeVars, overwrite, sourcePath, wide, budget, isCanceled, last, ops, queue,
                   running, joinOp, result, error, via, cancelRequested, lastEntry,
                   startOrder>>

\* nfcall(_openZip, zipFile).then(null, err => wrapError(toExtractError(err)))
OpenFail ==
    /\ phase = "opening"
    /\ result = "pending"
    /\ \E m \in {"EZIP", "EOCD"} : Outer(OuterFail(RawError(m), "open"))
    /\ UNCHANGED <<readVars, modeVars, rimraf, overwrite, sourcePath, wide, budget, phase, zip, isCanceled, last,
                   ops, queue, running, joinOp, cancelRequested, lastEntry, startOrder>>

RimrafDone ==
    /\ phase = "deleting"
    /\ result = "pending"
    /\ phase' = "extracting"
    /\ rimraf' = "done"
    /\ UNCHANGED <<readVars, modeVars, overwrite, sourcePath, wide, budget, zip, isCanceled, last, ops,
                   queue, running, joinOp, result, error, via, cancelRequested,
                   lastEntry, startOrder>>

\* While rimraf(targetPath) is pending extractZip has not run and nothing is
\* subscribed to the opened handle, which reads the archive on its own: an
\* entry it emits now reaches no handler.
EntryUnheard ==
    /\ phase = "deleting"
    /\ ~zip.closed
    /\ budget > 0
    /\ budget' = budget - 1
    /\ UNCHANGED <<readVars, modeVars, rimraf, overwrite, sourcePath, wide, phase, zip,
                   isCanceled, last, ops, queue, running, joinOp, result, error, via,
                   cancelRequested, lastEntry, startOrder>>

\* The handle reaches the end of the archive and closes while rimraf is
\* pending: its close event reaches no handler.
CloseUnheard ==
    /\ phase = "deleting"
    /\ ~zip.closed
    /\ zip' = [zip EXCEPT !.closed = TRUE, !.open = FALSE]
    /\ UNCHANGED <<readVars, modeVars, rimraf, overwrite, sourcePath, wide, budget, phase,
                   isCanceled, last, ops, queue, running, joinOp, result, error, via,
                   cancelRequested, lastEntry, startOrder>>

\* The handle fails on a corrupt record while rimraf is pending: its error
\* event reaches no handler, and the handle closes itself.
ErrorUnheard ==
    /\ phase = "deleting"
    /\ ~zip.closed
    /\ ~zip.errored
    /\ zip' = [zip EXCEPT !.errored = TRUE, !.open = FALSE]
    /\ UNCHANGED <<readVars, modeVars, rimraf, overwrite, sourcePath, wide, budget, phase,
                   isCanceled, last, ops, queue, running, joinOp, result, error, via,
                   cancelRequested, lastEntry, startOrder>>

\* rimraf's failure reaches the caller as it is: no handler maps it.
RimrafFail ==
    /\ phase = "deleting"
    /\ result = "pending"
    /\ result' = "failed"
    /\ error' = RawError("EFS")
    /\ via' = "rimraf"
    /\ rimraf' = "failed"
    /\ UNCHANGED <<readVars, modeVars, overwrite, sourcePath, wide, budget, phase, zip, isCanceled, last,
                   ops, queue, running, joinOp, cancelRequested, lastEntry, startOrder>>

(***************************************************************************)
(* The specification.                                                      *)
(***************************************************************************)
\* read(), buffer() and modeFromEntry() are not called.
ReadIdle ==
    /\ filePath = <<>>
    /\ rphase = "idle"
    /\ rzip = [errored |-> FALSE, closed |-> FALSE]
    /\ emitted = <<>>
    /\ opens = {}
    /\ rresult = "pending"
    /\ rvalue = 0
    /\ rerror = NoError
    /\ sstate = "none"
    /\ sent = <<>>
    /\ buffers = <<>>
    /\ bresult = "pending"
    /\ bvalue = <<>>
    /\ berror = NoError

ModeIdle == attrWord = [hi |-> 0, lo |-> 0] /\ mode = -1

Init ==
    /\ ReadIdle
    /\ ModeIdle
    /\ overwrite \in BOOLEAN
    /\ \/ wide = FALSE /\ sourcePath \in NarrowSourcePaths /\ budget = MaxEntries
       \/ wide = TRUE /\ sourcePath \in Strings /\ budget = WideEntries
    /\ phase = "opening"
    /\ rimraf = "none"
    /\ zip = [open |-> FALSE, errored |-> FALSE, closed |-> FALSE]
    /\ isCanceled = FALSE
    /\ last = 0
    /\ ops = <<>>
    /\ queue = <<>>
    /\ running = FALSE
    /\ joinOp = 0
    /\ result = "pending"
    /\ error = NoError
    /\ via = "none"
    /\ cancelRequested = FALSE
    /\ lastEntry = [name |-> <<>>, disp |-> "none", fileName |-> <<>>]
    /\ startOrder = <<>>

Next ==
    \/ OpenOk
    \/ OpenFail
    \/ RimrafDone
    \/ RimrafFail
    \/ EntryUnheard
    \/ CloseUnheard
    \/ ErrorUnheard
    \/ Entry
    \/ ZipClose
    \/ ZipError
    \/ MkdirpSettle
    \/ OpenSink
    \/ FailBeforeSink
    \/ SinkClose
    \/ SinkError
    \/ SourceError
    \/ Cancel

Spec == Init /\ [][Next]_vars

(***************************************************************************)
(* read(zipPath, filePath) and buffer(zipPath, filePath).                  *)
(***************************************************************************)
\* extract() is not called.
ExtractIdle ==
    /\ overwrite = FALSE
    /\ sourcePath = <<>>
    /\ wide = FALSE
    /\ budget = 0
    /\ phase = "idle"
    /\ rimraf = "none"
    /\ zip = [open |-> FALSE, errored |-> FALSE, closed |-> FALSE]
    /\ isCanceled = FALSE
    /\ last = 0
    /\ ops = <<>>
    /\ queue = <<>>
    /\ running = FALSE
    /\ joinOp = 0
    /\ result = "pending"
    /\ error = NoError
    /\ via = "none"
    /\ cancelRequested = FALSE
    /\ lastEntry = [name |-> <<>>, disp |-> "none", fileName |-> <<>>]
    /\ startOrder = <<>>

MaxReadEntries == 3
MaxChunks == 3

\* Entry names of the archive read() scans, and the names asked for.
ReadNames == {<<"a">>, <<"a", "a">>}

\* The chunks the matched stream delivers.
Chunks == {<<1>>, <<2, 3>>}

\* new Error(nls.localize('notFound', "{0} not found inside zip.", filePath))
NotFoundError(path) ==
    [class |-> "Error", type |-> "none",
     message |-> path \o <<" not found inside zip.">>, cause |-> <<>>]

\* e(err) on the promise read() returns; buffer() is chained on it with no
\* error handler, so the failure is buffer()'s failure too.
ReadFail(err) ==
    IF rresult = "pending"
    THEN /\ rresult' = "failed"
         /\ rerror' = err
         /\ bresult' = "failed"
         /\ berror' = err
    ELSE UNCHANGED <<rresult, rerror, bresult, berror>>

\* openZip(zipPath) resolves: read() subscribes to entry and close.
ReadOpenOk ==
    /\ rphase = "opening"
    /\ rphase' = "scanning"
    /\ UNCHANGED <<extractVars, modeVars, filePath, rzip, emitted, opens, rresult,
                   rvalue, rerror, sstate, sent, buffers, bresult, bvalue, berror>>

\* openZip(zipPath) fails: the failure is mapped by toExtractError.
ReadOpenFail ==
    /\ rphase = "opening"
    /\ rphase' = "unopened"
    /\ \E m \in {"EZIP", "EOCD"} : ReadFail(toExtractError(RawError(m)))
    /\ UNCHANGED <<extractVars, modeVars, filePath, rzip, emitted, opens, rvalue,
                   sstate, sent, buffers, bvalue>>

\* zipfile.on('entry', ...): a name-exact match asks for the entry's read
\* stream; the answer comes in a later callback.
ReadEntry ==
    /\ rphase = "scanning"
    /\ ~rzip.closed
    /\ Len(emitted) < MaxReadEntries
    /\ \E name \in ReadNames :
          /\ emitted' = Append(emitted, name)
          /\ opens' = IF name = filePath THEN opens \cup {Len(emitted) + 1} ELSE opens
    /\ UNCHANGED <<extractVars, modeVars, filePath, rphase, rzip, rresult, rvalue,
                   rerror, sstate, sent, buffers, bresult, bvalue, berror>>

\* The callback of zipfile.openReadStream: .done(stream => c(stream), err => e(err)).
\* buffer() subscribes to the stream it is given.
ReadStreamOpened ==
    \E i \in opens, okay \in BOOLEAN :
        /\ opens' = opens \ {i}
        /\ IF okay
           THEN IF rresult = "pending"
                THEN /\ rresult' = "resolved"
                     /\ rvalue' = i
                     /\ sstate' = "flowing"
                     /\ UNCHANGED <<rerror, bresult, berror>>
                ELSE UNCHANGED <<rresult, rvalue, sstate, rerror, bresult, berror>>
           ELSE /\ ReadFail(RawError("EREAD"))
                /\ UNCHANGED <<rvalue, sstate>>
        /\ UNCHANGED <<extractVars, modeVars, filePath, rphase, rzip, emitted, sent,
                       buffers, bvalue>>

\* zipfile.once('close', () => e(new Error(... not found ...))).
ReadClose ==
    /\ rphase = "scanning"
    /\ ~rzip.closed
    /\ rzip' = [rzip EXCEPT !.closed = TRUE]
    /\ ReadFail(NotFoundError(filePath))
    /\ UNCHANGED <<extractVars, modeVars, filePath, rphase, emitted, opens, rvalue,
                   sstate, sent, buffers, bvalue>>

\* The handle emits error: read() has subscribed nothing to it.
ReadError ==
    /\ rphase = "scanning"
    /\ ~rzip.closed
    /\ ~rzip.errored
    /\ rzip' = [rzip EXCEPT !.errored = TRUE]
    /\ UNCHANGED <<extractVars, modeVars, filePath, rphase, emitted, opens, rresult,
                   rvalue, rerror, sstate, sent, buffers, bresult, bvalue, berror>>

\* Mutant: a chunk is put in front of the ones received before it.
BufferPushFront(bs, b) == <<b>> \o bs

\* buffers.push(b)
BufferPush(bs, b) == Append(bs, b)

\* Buffer.concat(buffers)
RECURSIVE BufferConcat(_)
BufferConcat(bs) ==
    IF bs = <<>> THEN <<>> ELSE Head(bs) \o BufferConcat(Tail(bs))

\* stream.on('data', b => buffers.push(b))
BufferData ==
    /\ sstate = "flowing"
    /\ Len(buffers) < MaxChunks
    /\ \E b \in Chunks :
          /\ sent' = sent \o b
          /\ buffers' = BufferPush(buffers, b)
    /\ UNCHANGED <<extractVars, modeVars, filePath, rphase, rzip, emitted, opens,
                   rresult, rvalue, rerror, sstate, bresult, bvalue, berror>>

\* stream.on('end', () => c(Buffer.concat(buffers)))
BufferEnd ==
    /\ sstate = "flowing"
    /\ sstate' = "ended"
    /\ bresult' = "resolved"
    /\ bvalue' = BufferConcat(buffers)
    /\ UNCHANGED <<extractVars, modeVars, filePath, rphase, rzip, emitted, opens,
                   rresult, rvalue, rerror, sent, buffers, berror>>

\* stream.once('error', e)
BufferError ==
    /\ sstate = "flowing"
    /\ sstate' = "errored"
    /\ bresult' = "failed"
    /\ berror' = RawError("ESTREAM")
    /\ UNCHANGED <<extractVars, modeVars, filePath, rphase, rzip, emitted, opens,
                   rresult, rvalue, rerror, sent, buffers, bvalue>>

InitRead ==
    /\ ExtractIdle
    /\ ModeIdle
    /\ filePath \in ReadNames
    /\ rphase = "opening"
    /\ rzip = [errored |-> FALSE, closed |-> FALSE]
    /\ emitted = <<>>
    /\ opens = {}
    /\ rresult = "pending"
    /\ rvalue = 0
    /\ rerror = NoError
    /\ sstate = "none"
    /\ sent = <<>>
    /\ buffers = <<>>
    /\ bresult = "pending"
    /\ bvalue = <<>>
    /\ berror = NoError

NextRead ==
    \/ ReadOpenOk
    \/ ReadOpenFail
    \/ ReadEntry
    \/ ReadStreamOpened
    \/ ReadClose
    \/ ReadError
    \/ BufferData
    \/ BufferEnd
    \/ BufferError

SpecRead == InitRead /\ [][NextRead]_vars

\* What the runtime guarantees of a read() call: openZip answers, a requested
\* read stream is answered, and a handle that has not failed reaches the end
\* of the archive and closes.  Nothing makes a handle that emitted error emit
\* close.
ReadCloseAtEnd == ~rzip.errored /\ ReadClose

FairSpecRead ==
    /\ SpecRead
    /\ WF_vars(ReadOpenOk \/ ReadOpenFail)
    /\ WF_vars(ReadStreamOpened)
    /\ WF_vars(ReadCloseAtEnd)

(***************************************************************************)
(* modeFromEntry(entry).                                                   *)
(***************************************************************************)
\* The halves of a 32-bit word are 16 bits wide.
HalfWord == 65536
SignBit == 32768

DefaultMode == 33188
S_IRWXU == 448
S_IRWXG == 56
S_IRWXO == 7
S_IFMT == 61440

\* entry.externalFileAttributes >> 16: the operand is converted to a signed
\* 32-bit integer and shifted with sign propagation, so the result is the
\* high half read as a signed 16-bit number.
ShiftRight16(w) == IF w.hi >= SignBit THEN w.hi - HalfWord ELSE w.hi

\* x & mask on 32-bit two's complement, for a mask below 2^16: the bits of the
\* mask are compared with the low 16 bits of x, which for a negative x are
\* those of x + 2^16.
RECURSIVE AndBits(_, _, _)
AndBits(x, m, n) ==
    IF n = 0 THEN 0
    ELSE (IF x % 2 = 1 /\ m % 2 = 1 THEN 1 ELSE 0) + 2 * AndBits(x \div 2, m \div 2, n - 1)

BitAnd(x, mask) == AndBits(x % HalfWord, mask, 16)

\* Mutant: the attribute is returned as it is, unmasked.
modeFromEntryUnmasked(w) ==
    LET shifted == ShiftRight16(w)
    IN  IF shifted # 0 THEN shifted ELSE DefaultMode

modeFromEntry(w) ==
    LET shifted == ShiftRight16(w)
        attr == IF shifted # 0 THEN shifted ELSE DefaultMode
    IN  ((BitAnd(attr, S_IFMT) + BitAnd(attr, S_IRWXU)) + BitAnd(attr, S_IRWXG))
            + BitAnd(attr, S_IRWXO)

\* The low halves tried with every high half.
LowHalves == {0, HalfWord - 1}

ModeCall ==
    /\ mode = -1
    /\ mode' = modeFromEntry(attrWord)
    /\ UNCHANGED <<extractVars, readVars, attrWord>>

InitMode ==
    /\ ExtractIdle
    /\ ReadIdle
    /\ attrWord \in [hi : 0..(HalfWord - 1), lo : LowHalves]
    /\ mode = -1

NextMode == ModeCall

SpecMode == InitMode /\ [][NextMode]_vars

(***************************************************************************)
(* Properties.                                                             *)
(***************************************************************************)
Writes == {i \in 1..Len(ops) : ops[i].kind = "write"}

ExecutingWrites == {i \in Writes : ops[i].st \in Executing}

\* A task whose body has been started (whatever became of it since).
HasStarted(i) == ops[i].st \in {"started", "writing", "ok", "failed", "cancelled"}

\* prefix is literally the beginning of s.
StartsWith(prefix, s) ==
    Len(prefix) <= Len(s) /\ SubSeq(s, 1, Len(prefix)) = prefix

EntryHandled == lastEntry.disp \in {"excluded", "dir", "file"}

C2_SuccessMeansAllSucceeded ==
    result = "completed" => \A i \in 1..Len(ops) : ops[i].st = "ok"

\* C3: the future settles through the completion path only after close was
\* emitted and the operation `last` referred to at close has settled, and its
\* outcome is then that operation's outcome.
C3_CompletionFollowsLastAtClose ==
    /\ zip.closed => joinOp = last
    /\ via = "join" =>
          /\ zip.closed
          /\ IsSettled(ops, joinOp)
          /\ result \in {"completed", "failed"}
          /\ (result = "completed") = IsOk(ops, joinOp)
          /\ result = "failed" => error.cause = ops[joinOp].err.message

C3_Witness ==
    /\ via = "join"
    /\ result = "failed"
    /\ Len(ops) >= 2
    /\ joinOp = Len(ops)
    /\ ops[joinOp].kind = "write"

\* C4: cancelling while extracting settles the returned future as cancelled and
\* closes the archive handle, and no entry delivered after the cancellation
\* schedules a directory creation or a file-write task.
C4_CancelStopsExtraction ==
    [][/\ (~cancelRequested /\ cancelRequested' /\ result = "pending"
             /\ phase = "extracting")
          => (isCanceled' /\ result' = "cancelled" /\ ~zip'.open)
       /\ isCanceled' => (result' = "cancelled" /\ ~zip'.open)
       /\ isCanceled => (Len(ops') = Len(ops) /\ last' = last)]_vars

C4_Witness ==
    /\ isCanceled
    /\ lastEntry.disp = "suppressed"
    /\ result = "cancelled"
    /\ ~zip.open

\* C5 (as stated): once the extraction is cancelled, no file-write task that is
\* queued in the throttler and not yet started is ever started.
C5_NoQueuedTaskStartsAfterCancel ==
    [][isCanceled =>
          \A i \in 1..Len(ops) :
              ops[i].st = "queued" => ~(ops'[i].st \in Executing)]_vars

\* C6: file-write tasks start in the order their entries arrived, and a later
\* entry's task does not start before every earlier file entry's task has
\* settled.
C6_SerialInArrivalOrder ==
    /\ \A i, j \in Writes : (i < j /\ HasStarted(j)) => ops[i].st \in Settled
    /\ \A a, b \in 1..Len(startOrder) : a < b => startOrder[a] < startOrder[b]
    /\ {startOrder[a] : a \in 1..Len(startOrder)} = {i \in Writes : HasStarted(i)}

C6_Witness ==
    /\ Len(startOrder) >= 2
    /\ \E i, j, k \in Writes :
          /\ i < j /\ j < k
          /\ ops[i].st \in {"ok", "failed"}
          /\ ops[j].st = "writing"
          /\ ops[k].st = "queued"

\* C7 (as stated): when the operation the future was waiting for fails with a
\* filesystem error, the future fails with that same error, not wrapped into an
\* ExtractError.
C7_FilesystemErrorsUnwrapped ==
    (via = "join" /\ result = "failed" /\ ops[joinOp].err.message = <<"EFS">>)
        => error = ops[joinOp].err

\* C8 (as stated): an error of the archive handle fails the extraction at once,
\* and an entry delivered after it schedules nothing.
C8_EntriesAfterErrorIgnored ==
    [][/\ zip'.errored => result' # "pending"
       /\ zip.errored => Len(ops') = Len(ops)]_vars

\* C9 (as stated): an in-scope entry whose archive name ends in "/" is handled
\* by a directory creation, which becomes `last`, and never as a file, for
\* every sourcePath.  Stated for the entries whose name literally starts with
\* sourcePath, which are in scope under every reading of the filter.
C9_DirectoryRecordsCreateDirectories ==
    (/\ lastEntry.disp \in {"dir", "file"}
     /\ StartsWith(sourcePath, lastEntry.name)
     /\ IsDirectoryName(lastEntry.name))
        => /\ lastEntry.disp = "dir"
           /\ last = Len(ops)
           /\ ops[last].kind = "mkdirp"

\* C10 (as stated): without a sourcePath every entry is in scope under its own
\* name; with one, an entry whose name does not start with it has no effect and
\* an entry whose name starts with it is processed with that prefix removed.
C10_FilterIsLiteralPrefix ==
    EntryHandled =>
        /\ sourcePath = <<>> =>
              lastEntry.disp # "excluded" /\ lastEntry.fileName = lastEntry.name
        /\ ~StartsWith(sourcePath, lastEntry.name) => lastEntry.disp = "excluded"
        /\ StartsWith(sourcePath, lastEntry.name) =>
              /\ lastEntry.disp # "excluded"
              /\ lastEntry.fileName
                    = SubSeq(lastEntry.name, Len(sourcePath) + 1, Len(lastEntry.name))

\* C12: with overwrite set, the deletion of the target directory has finished
\* before any entry is processed: while it is pending no entry handler is
\* attached and nothing has been scheduled.
C12_DeletionBeforeEntries ==
    /\ rimraf = "pending" =>
          /\ phase = "deleting"
          /\ ops = <<>> /\ last = 0 /\ queue = <<>>
          /\ lastEntry.disp = "none"
    /\ (overwrite /\ phase = "extracting") => rimraf = "done"
    /\ (overwrite /\ (ops # <<>> \/ lastEntry.disp # "none")) => rimraf = "done"

C12_Witness ==
    /\ overwrite
    /\ rimraf = "done"
    /\ budget = 0
    /\ Len(ops) >= 1
    /\ Len(ops) < MaxEntries
    /\ ~wide

\* The errors the archive handle and yauzl's open raise.
ParserMessages == {<<"EZIP">>, <<"EOCD">>}

IsCorruptZipOf(err) ==
    /\ err.class = "ExtractError"
    /\ err.type = "CorruptZip"
    /\ err.cause \in ParserMessages
    /\ err.message = <<"Corrupt ZIP: ">> \o err.cause

\* C15: an error raised while opening the archive, and an error the handle
\* emits while extractZip is subscribed to it and pending, reach the caller as
\* an ExtractError of kind CorruptZip with message "Corrupt ZIP: " + the
\* original message and the original error as cause; kind Undefined is never
\* produced.
C15_ParserErrorsAreCorruptZip ==
    [][/\ via' \in {"open", "error"} => (result' = "failed" /\ IsCorruptZipOf(error'))
       /\ error'.type # "Undefined"
       /\ (zip'.errored /\ ~zip.errored /\ result = "pending" /\ phase = "extracting")
             => (via' = "error" /\ error'.cause = <<"EZIP">>)
       /\ (phase = "opening" /\ phase' = "opening" /\ result = "pending"
             /\ result' = "failed") => via' = "open"]_vars

C15_Witness ==
    /\ via = "error"
    /\ result = "failed"
    /\ error.type = "CorruptZip"
    /\ error.message = <<"Corrupt ZIP: ", "EZIP">>

\* C16 (as stated): a task that failed after its sink was opened has closed the
\* sink; a task that resolved did so on the sink's close; a cancelled task has
\* closed the sink it opened.
C16_ExtractEntryClosesSink ==
    \A i \in Writes :
        /\ (ops[i].st = "failed" /\ ops[i].sink # "none") => ops[i].sink = "closed"
        /\ ops[i].st = "ok" => ops[i].sink = "closed"
        /\ ops[i].st = "cancelled" => ops[i].sink # "open"

\* C17 (as stated): cancelling an extract call that has not settled, in
\* whatever phase, closes the archive handle it has opened.
C17_CancelClosesHandle ==
    [][(~cancelRequested /\ cancelRequested' /\ result = "pending" /\ zip.open)
          => ~zip'.open]_vars

\* C18: a cancellation requested after the extraction has completed or failed
\* changes nothing: not the outcome, the isCanceled flag, `last`, the
\* operations or the archive handle.
C18_CancelAfterSettledIsNoOp ==
    [][(~cancelRequested /\ cancelRequested' /\ result \in {"completed", "failed"})
          => UNCHANGED <<result, error, via, isCanceled, last, ops, queue, running,
                         zip>>]_vars

C18_Witness ==
    /\ cancelRequested
    /\ result = "completed"
    /\ Len(ops) >= 1
    /\ ~isCanceled

\* C19: the returned future settles at most once: once completed, failed or
\* cancelled, no later event changes its outcome.
C19_SettlesOnce ==
    [][result # "pending" => (result' = result /\ error' = error /\ via' = via)]_vars

C19_Witness ==
    /\ result = "failed"
    /\ via = "error"
    /\ zip.closed
    /\ cancelRequested
    /\ joinOp # 0
    /\ IsOk(ops, joinOp)

Matches == {i \in 1..Len(emitted) : emitted[i] = filePath}

\* C11 (as stated): read() never fails with not-found once the handle has
\* emitted an entry named exactly filePath, whatever the order of the
\* read-stream-open callback and the handle's close; and it fails with
\* not-found naming filePath when the handle closes having emitted none.
C11_ReadFindsEmittedEntry ==
    /\ (rresult = "failed" /\ rerror = NotFoundError(filePath)) => Matches = {}
    /\ (rzip.closed /\ Matches = {}) =>
          (rresult = "failed" /\ rerror = NotFoundError(filePath))

\* C13: buffer() resolves on the stream's end with the bytes of every chunk
\* the stream delivered, in arrival order, and fails with the stream's error
\* when the stream errors before ending.
C13_BufferIsConcatenation ==
    /\ bresult = "resolved" => (sstate = "ended" /\ bvalue = sent)
    /\ sstate = "ended" => bresult = "resolved"
    /\ sstate = "errored" => (bresult = "failed" /\ berror = RawError("ESTREAM"))
    /\ sstate = "flowing" => (bresult = "pending" /\ BufferConcat(buffers) = sent)

C13_Witness ==
    /\ bresult = "resolved"
    /\ Len(buffers) = MaxChunks
    /\ buffers[1] # buffers[2]
    /\ bvalue = sent

\* The high half of the word, or the default mode when it is zero.
StoredMode == IF attrWord.hi = 0 THEN DefaultMode ELSE attrWord.hi

\* C14: the mode computed from a 32-bit attribute word is the sum of the
\* owner, group and other permission bits and the file-type bits of its high
\* half (of 33188 when that half is zero); it lies in 0..61951, keeps the
\* stored type and rwx bits and carries no setuid, setgid or sticky bit, for
\* words with the top bit set too.
C14_ModeFormula ==
    mode # -1 =>
        /\ mode = ((StoredMode \div 64) % 8) * 64 + ((StoredMode \div 8) % 8) * 8
                     + (StoredMode % 8) + ((StoredMode \div 4096) % 16) * 4096
        /\ mode \in 0..61951
        /\ mode % 512 = StoredMode % 512
        /\ mode \div 4096 = StoredMode \div 4096
        /\ (mode \div 512) % 8 = 0

C14_Witness ==
    /\ attrWord = [hi |-> 35309, lo |-> 65535]
    /\ mode = 33261

\* C20 (as stated): once the handle of a read() call has emitted close or
\* error, the call settles.
C20_ReadSettlesAfterTerminalSignal ==
    (rphase = "scanning" /\ (rzip.closed \/ rzip.errored)) ~> (rresult # "pending")

====
